---- MODULE Spec2Model ----
(***************************************************************************)
(* TinyWS2812: a bit-banging driver for WS2812 devices on bare AVR, on     *)
(* Arduino-AVR and on STM8S.  The model covers the device handle, the     *)
(* process-wide session state, the interrupt-enable flag, the output      *)
(* registers and the writes the transmit routines perform on them.        *)
(***************************************************************************)
EXTENDS Integers, Sequences, FiniteSets, TLC

\* ------------------------------------------------------------------ bounds
\* Longest pixel array handed to one ws2812_tx call.
MaxPxls == 1
\* Largest number of pixels followed on the wire inside one bracket.
MaxSent == 2

\* ------------------------------------------------------- 8-bit arithmetic
RECURSIVE AndN(_, _, _)
AndN(a, b, n) ==
    IF n = 0 THEN 0
    ELSE (a % 2) * (b % 2) + 2 * AndN(a \div 2, b \div 2, n - 1)

\* a & b on uint8_t
BitAnd(a, b) == AndN(a % 256, b % 256, 8)
\* a | b on uint8_t
BitOr(a, b) == (a % 256) + (b % 256) - BitAnd(a, b)
\* ~a truncated to uint8_t
BitNot(a) == 255 - (a % 256)
\* 1 << n truncated to uint8_t
Shl1(n) == (2 ^ n) % 256
\* bit 7 of a byte (byte & 0b10000000, sbrs %1,7)
Bit7(b) == (b \div 128) % 2
\* byte <<= 1 on uint8_t (lsl %1)
Lsl(b) == (2 * b) % 256

\* ------------------------------------------------------------- platforms
\* The build selects exactly one target.
Platforms == {"AVR", "ARDUINO_AVR", "STM8S"}

\* ws2812_order enumerators
rgb == 0
rbg == 1
brg == 2
bgr == 3
grb == 4
gbr == 5
Orders == {rgb, rbg, brg, bgr, grb, gbr}

\* RGB maps
ws2812_order_rgb == <<0, 1, 2>>
ws2812_order_rbg == <<0, 2, 1>>
ws2812_order_brg == <<2, 0, 1>>
ws2812_order_bgr == <<2, 1, 0>>
ws2812_order_grb == <<1, 0, 2>>
ws2812_order_gbr == <<1, 2, 0>>

\* Variant of _ws2812_get_rgbmap with the tables of brg and gbr exchanged.
_ws2812_get_rgbmap_swapped(order) ==
    CASE order = rbg -> ws2812_order_rbg
      [] order = brg -> ws2812_order_gbr
      [] order = bgr -> ws2812_order_bgr
      [] order = grb -> ws2812_order_grb
      [] order = gbr -> ws2812_order_brg
      [] OTHER       -> ws2812_order_rgb

\* Variant of _ws2812_get_rgbmap whose switch has no case for bgr, which
\* then takes the default.
_ws2812_get_rgbmap_nobgr(order) ==
    CASE order = rbg -> ws2812_order_rbg
      [] order = brg -> ws2812_order_brg
      [] order = grb -> ws2812_order_grb
      [] order = gbr -> ws2812_order_gbr
      [] OTHER       -> ws2812_order_rgb

\* Variant of _ws2812_get_rgbmap whose switch has no default case: for rgb
\* and for a value that is no enumerator nothing is copied, and the map
\* stays as a zeroed handle has it.
_ws2812_get_rgbmap_nodefault(order) ==
    CASE order = rbg -> ws2812_order_rbg
      [] order = brg -> ws2812_order_brg
      [] order = bgr -> ws2812_order_bgr
      [] order = grb -> ws2812_order_grb
      [] order = gbr -> ws2812_order_gbr
      [] OTHER       -> <<0, 0, 0>>

\* The switch of _ws2812_get_rgbmap; rgb is the default case.
_ws2812_get_rgbmap(order) ==
    CASE order = rbg -> ws2812_order_rbg
      [] order = brg -> ws2812_order_brg
      [] order = bgr -> ws2812_order_bgr
      [] order = grb -> ws2812_order_grb
      [] order = gbr -> ws2812_order_gbr
      [] OTHER       -> ws2812_order_rgb

\* --------------------------------------------------------- configuration
\* The two device handles the application owns.
Handles == {"A", "B"}

\* Output registers: 1 and 2 are two GPIO ports; 0 is the address a
\* zero-initialised static pointer refers to.
Ports == {1, 2}
Addrs == {0} \cup Ports

\* A handle the application has declared and ws2812_config has not written.
NoDev == [init |-> FALSE, port |-> 0, rst_time_us |-> 0, maskhi |-> 0, masklo |-> 0, rgbmap |-> <<0, 0, 0>>]

\* Arduino core pin tables (Uno layout): pins 0..7 are bits 0..7 of one port,
\* pins 8..13 are bits 0..5 of another.
digitalPinToPort(pin) == IF pin < 8 THEN 1 ELSE 2
digitalPinToBitMask(pin) == IF pin < 8 THEN Shl1(pin) ELSE Shl1(pin - 8)

\* pin_msk contribution of one entry of cfg.pins
PinBits(plat, pin) ==
    CASE plat = "AVR"         -> Shl1(pin)
      [] plat = "ARDUINO_AVR" -> digitalPinToBitMask(pin)
      [] plat = "STM8S"       -> pin % 256

\* pin_msk after the first n entries of pins
RECURSIVE PinMskUpTo(_, _, _)
PinMskUpTo(plat, pins, n) ==
    IF n = 0 THEN 0 ELSE BitOr(PinMskUpTo(plat, pins, n - 1), PinBits(plat, pins[n]))

\* Variant of the mismatch test that compares the first two pins only.
FirstMismatch_firstpair(pins, i) ==
    IF i + 1 > Len(pins) THEN 0
    ELSE IF digitalPinToPort(pins[i]) # digitalPinToPort(pins[i + 1]) THEN i
    ELSE 0

\* Arduino: the first index i whose pin and successor lie on different
\* ports, or 0 when the loop runs to its end.
RECURSIVE FirstMismatch(_, _)
FirstMismatch(pins, i) ==
    IF i + 1 > Len(pins) THEN 0
    ELSE IF digitalPinToPort(pins[i]) # digitalPinToPort(pins[i + 1]) THEN i
    ELSE FirstMismatch(pins, i + 1)

\* pinMode(pin, OUTPUT) on the first n pins: sets the pin's bit in the
\* data-direction register of the pin's port.
RECURSIVE PinModeUpTo(_, _, _)
PinModeUpTo(ddr, pins, n) ==
    IF n = 0 THEN ddr
    ELSE LET d == PinModeUpTo(ddr, pins, n - 1)
             p == digitalPinToPort(pins[n])
         IN  [d EXCEPT ![p] = BitOr(d[p], digitalPinToBitMask(pins[n]))]

\* Variant of ws2812_config on AVR targets that composes the masks from
\* pin_msk alone, without the contents of the output register.
ConfigAVR_plainmasks(plat, d, cfg, port, ddr) ==
    LET n == Len(cfg.pins) IN
    IF n = 0 THEN [ret |-> 1, dev |-> d, PORT |-> port, DDR |-> ddr]
    ELSE IF plat = "ARDUINO_AVR" /\ FirstMismatch(cfg.pins, 1) # 0
    THEN [ret |-> 2, dev |-> d, PORT |-> port,
          DDR |-> PinModeUpTo(ddr, cfg.pins, FirstMismatch(cfg.pins, 1) - 1)]
    ELSE LET pin_msk == PinMskUpTo(plat, cfg.pins, n)
             p == IF plat = "ARDUINO_AVR" THEN digitalPinToPort(cfg.pins[1]) ELSE cfg.port
         IN  [ret |-> 0,
              dev |-> [init |-> TRUE, port |-> p, rst_time_us |-> cfg.rst_time_us,
                       masklo |-> BitNot(pin_msk), maskhi |-> pin_msk,
                       rgbmap |-> _ws2812_get_rgbmap(cfg.order)],
              PORT |-> port,
              DDR |-> IF plat = "ARDUINO_AVR" THEN PinModeUpTo(ddr, cfg.pins, n)
                      ELSE [ddr EXCEPT ![p] = pin_msk]]

\* ws2812_config on AVR targets.  cfg.n_dev is the length of cfg.pins.
\* Yields the return value and the handle, PORT and DDR it leaves behind.
ConfigAVR(plat, d, cfg, port, ddr) ==
    LET n == Len(cfg.pins) IN
    IF n = 0 THEN [ret |-> 1, dev |-> d, PORT |-> port, DDR |-> ddr]
    ELSE IF plat = "ARDUINO_AVR"
    THEN LET bad == FirstMismatch(cfg.pins, 1) IN
         IF bad # 0
         THEN [ret |-> 2, dev |-> d, PORT |-> port, DDR |-> PinModeUpTo(ddr, cfg.pins, bad - 1)]
         ELSE LET pin_msk == PinMskUpTo(plat, cfg.pins, n)
                  p == digitalPinToPort(cfg.pins[1])
              IN  [ret |-> 0,
                   dev |-> [init |-> TRUE, port |-> p, rst_time_us |-> cfg.rst_time_us,
                            masklo |-> BitAnd(BitNot(pin_msk), port[p]),
                            maskhi |-> BitOr(pin_msk, port[p]),
                            rgbmap |-> _ws2812_get_rgbmap(cfg.order)],
                   PORT |-> port, DDR |-> PinModeUpTo(ddr, cfg.pins, n)]
    ELSE LET pin_msk == PinMskUpTo(plat, cfg.pins, n)
             p == cfg.port
         IN  [ret |-> 0,
              dev |-> [init |-> TRUE, port |-> p, rst_time_us |-> cfg.rst_time_us,
                       masklo |-> BitAnd(BitNot(pin_msk), port[p]),
                       maskhi |-> BitOr(pin_msk, port[p]),
                       rgbmap |-> _ws2812_get_rgbmap(cfg.order)],
              PORT |-> port, DDR |-> [ddr EXCEPT ![p] = pin_msk]]

\* GPIO_Init(port, pin, GPIO_MODE_OUT_PP_LOW_FAST) on the first n pins:
\* output low, direction out.
RECURSIVE GpioInitUpTo(_, _, _, _)
GpioInitUpTo(r, p, pins, n) ==
    IF n = 0 THEN r
    ELSE LET q == GpioInitUpTo(r, p, pins, n - 1) IN
         [PORT |-> [q.PORT EXCEPT ![p] = BitAnd(q.PORT[p], BitNot(pins[n]))],
          DDR  |-> [q.DDR EXCEPT ![p] = BitOr(q.DDR[p], pins[n] % 256)]]

\* ws2812_config on STM8S.
ConfigSTM8S(d, cfg, port, ddr) ==
    LET n == Len(cfg.pins)
        pin_msk == PinMskUpTo("STM8S", cfg.pins, n)
        io == GpioInitUpTo([PORT |-> port, DDR |-> ddr], cfg.port, cfg.pins, n)
    IN  [ret |-> 0,
         dev |-> [init |-> TRUE, port |-> cfg.port, rst_time_us |-> cfg.rst_time_us,
                  maskhi |-> pin_msk, masklo |-> BitNot(pin_msk),
                  rgbmap |-> _ws2812_get_rgbmap(cfg.order)],
         PORT |-> io.PORT, DDR |-> io.DDR]

\* ws2812_config of the selected target.
ws2812_config(plat, d, cfg, port, ddr) ==
    IF plat = "STM8S" THEN ConfigSTM8S(d, cfg, port, ddr)
    ELSE ConfigAVR(plat, d, cfg, port, ddr)

\* The pins a handle drives: the bits its set mask raises and its clear
\* mask lowers.
PinMsk(d) == BitAnd(d.maskhi, BitNot(d.masklo))

\* ------------------------------------------------------------ bus events
\* What a handler does to the outside world, in program order:
\*   "st"  a store of val to output register port; at says where in the bit
\*         routine it sits: "rise" (the store of the set mask), "fall_early"
\*         (the store of the clear mask of a 0 bit), "fall_late" (of a 1 bit)
\*   "rst" a busy wait of val microseconds
\*   "cli" / "sei"  global interrupts disabled / enabled
\*   "sreg" SREG written back from _sreg_prev (val = 1 when its I bit is set)
\*   "prep" the static _prep written (val = 1 for true)
St(p, v, at) == [k |-> "st", port |-> p, val |-> v, at |-> at]
Rst(us) == [k |-> "rst", port |-> 0, val |-> us, at |-> "-"]
Cli == [k |-> "cli", port |-> 0, val |-> 0, at |-> "-"]
Sei == [k |-> "sei", port |-> 0, val |-> 0, at |-> "-"]
SregWr(b) == [k |-> "sreg", port |-> 0, val |-> IF b THEN 1 ELSE 0, at |-> "-"]
PrepWr(b) == [k |-> "prep", port |-> 0, val |-> IF b THEN 1 ELSE 0, at |-> "-"]

\* The transmit routines below yield [ev, PORT]: the stores they perform,
\* in order, and the output registers they leave behind.

\* Two stores in a row to output register p.
Stores2(port, p, v1, at1, v2, at2) == [ev |-> <<St(p, v1, at1), St(p, v2, at2)>>, PORT |-> [port EXCEPT ![p] = v2]]

\* ------------------------------------------------------- bit transmitter
\* Variant of the AVR loop body with the sense of the bit test inverted
\* (sbrc for sbrs, brcs for brcc).
TxBitAVR_inverted(d, port, byte) ==
    IF Bit7(byte) # 0 THEN Stores2(port, d.port, d.maskhi, "rise", d.masklo, "fall_early")
    ELSE Stores2(port, d.port, d.maskhi, "rise", d.masklo, "fall_late")

\* One iteration of the AVR assembly loop: st X,maskhi; then st X,masklo
\* either before lsl (bit 7 clear, sbrs does not skip) or after brcc (carry
\* set).
TxBitAVR(d, port, byte) ==
    IF Bit7(byte) = 0 THEN Stores2(port, d.port, d.maskhi, "rise", d.masklo, "fall_early")
    ELSE Stores2(port, d.port, d.maskhi, "rise", d.masklo, "fall_late")

\* ws2812_tx_bit_1 on STM8S: read the ODR, or in _mask_hi, store, wait,
\* and in _mask_lo, store.  stat = [odr, hi, lo] are the file's statics.
ws2812_tx_bit_1(stat, port) ==
    LET a1 == BitOr(port[stat.odr], stat.hi) IN
    Stores2(port, stat.odr, a1, "rise", BitAnd(a1, stat.lo), "fall_late")

\* ws2812_tx_bit_0 on STM8S: the same with the short high time.
ws2812_tx_bit_0(stat, port) ==
    LET a1 == BitOr(port[stat.odr], stat.hi) IN
    Stores2(port, stat.odr, a1, "rise", BitAnd(a1, stat.lo), "fall_early")

\* One iteration of the STM8S C loop.
TxBitSTM8S(stat, port, byte) ==
    IF BitAnd(byte, 128) # 0 THEN ws2812_tx_bit_1(stat, port) ELSE ws2812_tx_bit_0(stat, port)

\* The loop of ws2812_tx_byte: ctr iterations left (ldi %0,8 / i < 8), the
\* byte shifted left after each.
RECURSIVE TxByteLoop(_, _, _, _, _, _)
TxByteLoop(plat, d, stat, port, byte, ctr) ==
    IF ctr = 0 THEN [ev |-> <<>>, PORT |-> port]
    ELSE LET b == IF plat = "STM8S" THEN TxBitSTM8S(stat, port, byte) ELSE TxBitAVR(d, port, byte)
             rest == TxByteLoop(plat, d, stat, b.PORT, Lsl(byte), ctr - 1)
         IN  [ev |-> b.ev \o rest.ev, PORT |-> rest.PORT]

\* ws2812_tx_byte
ws2812_tx_byte(plat, d, stat, port, byte) == TxByteLoop(plat, d, stat, port, byte, 8)

\* The inner loop of ws2812_tx over j = from..sizeof(rgbmap)-1; a pixel is
\* the triple <<r, g, b>> and pxl[k] its k-th byte (k from 0).
RECURSIVE TxPxl(_, _, _, _, _, _)
TxPxl(plat, d, stat, port, pxl, j) ==
    IF j >= Len(d.rgbmap) THEN [ev |-> <<>>, PORT |-> port]
    ELSE LET b == ws2812_tx_byte(plat, d, stat, port, pxl[d.rgbmap[j + 1] + 1])
             rest == TxPxl(plat, d, stat, b.PORT, pxl, j + 1)
         IN  [ev |-> b.ev \o rest.ev, PORT |-> rest.PORT]

\* The outer loop of ws2812_tx over i = from..n_pxls-1 (pxls[i + 1] here).
RECURSIVE TxLoop(_, _, _, _, _, _)
TxLoop(plat, d, stat, port, pxls, i) ==
    IF i >= Len(pxls) THEN [ev |-> <<>>, PORT |-> port]
    ELSE LET b == TxPxl(plat, d, stat, port, pxls[i + 1], 0)
             rest == TxLoop(plat, d, stat, b.PORT, pxls, i + 1)
         IN  [ev |-> b.ev \o rest.ev, PORT |-> rest.PORT]

\* Variant of ws2812_tx that ends every call with a reset wait.
ws2812_tx_latching(plat, d, stat, port, pxls) ==
    LET r == TxLoop(plat, d, stat, port, pxls, 0) IN
    [ev |-> Append(r.ev, Rst(d.rst_time_us)), PORT |-> r.PORT]

\* ws2812_tx
ws2812_tx(plat, d, stat, port, pxls) == TxLoop(plat, d, stat, port, pxls, 0)

\* --------------------------------------------------- session, interrupts
\* ws2812_wait_rst: delay_us on bare AVR and STM8S (interrupts disabled,
\* busy wait, interrupts enabled), delayMicroseconds on Arduino.
\* s = [I, ev]: the global interrupt-enable flag and the events so far.
ws2812_wait_rst(plat, d, s) ==
    IF plat = "ARDUINO_AVR"
    THEN [I |-> s.I, ev |-> Append(s.ev, Rst(d.rst_time_us))]
    ELSE [I |-> TRUE, ev |-> s.ev \o <<Cli, Rst(d.rst_time_us), Sei>>]

\* Variant of ws2812_prep_tx without the _prep test: every call takes the
\* snapshot and copies the masks again.
ws2812_prep_tx_resnap(plat, d, m) ==
    IF plat = "STM8S"
    THEN [m EXCEPT !.odr = d.port, !.hi = d.maskhi, !.lo = d.masklo, !.prep = TRUE,
                   !.I = FALSE, !.ev = m.ev \o <<PrepWr(TRUE), Cli>>]
    ELSE [m EXCEPT !.sreg_prev = m.I, !.I = FALSE, !.prep = TRUE, !.ev = m.ev \o <<Cli, PrepWr(TRUE)>>]

\* ws2812_prep_tx.  m = [I, prep, sreg_prev, odr, hi, lo, ev].
ws2812_prep_tx(plat, d, m) ==
    IF m.prep THEN m
    ELSE IF plat = "STM8S"
    THEN [m EXCEPT !.odr = d.port, !.hi = d.maskhi, !.lo = d.masklo, !.prep = TRUE,
                   !.I = FALSE, !.ev = m.ev \o <<PrepWr(TRUE), Cli>>]
    ELSE [m EXCEPT !.sreg_prev = m.I, !.I = FALSE, !.prep = TRUE, !.ev = m.ev \o <<Cli, PrepWr(TRUE)>>]

\* Variant of ws2812_close_tx without the _prep test: every call restores,
\* enables and waits.
ws2812_close_tx_unguarded(plat, d, m) ==
    LET s0 == IF plat = "STM8S"
              THEN [I |-> TRUE, ev |-> m.ev \o <<Sei, PrepWr(FALSE)>>]
              ELSE [I |-> TRUE, ev |-> m.ev \o <<SregWr(m.sreg_prev), Sei, PrepWr(FALSE)>>]
        s1 == ws2812_wait_rst(plat, d, s0)
    IN  [m EXCEPT !.I = s1.I, !.prep = FALSE, !.ev = s1.ev]

\* Variant of ws2812_close_tx that leaves out the call of ws2812_wait_rst.
ws2812_close_tx_nowait(plat, d, m) ==
    IF ~m.prep THEN m
    ELSE IF plat = "STM8S"
    THEN [m EXCEPT !.I = TRUE, !.prep = FALSE, !.ev = m.ev \o <<Sei, PrepWr(FALSE)>>]
    ELSE [m EXCEPT !.I = TRUE, !.prep = FALSE, !.ev = m.ev \o <<SregWr(m.sreg_prev), Sei, PrepWr(FALSE)>>]

\* Variant of ws2812_close_tx that never writes _prep.
ws2812_close_tx_keeps(plat, d, m) ==
    IF ~m.prep THEN m
    ELSE LET s0 == IF plat = "STM8S"
                   THEN [I |-> TRUE, ev |-> Append(m.ev, Sei)]
                   ELSE [I |-> TRUE, ev |-> m.ev \o <<SregWr(m.sreg_prev), Sei>>]
             s1 == ws2812_wait_rst(plat, d, s0)
         IN  [m EXCEPT !.I = s1.I, !.ev = s1.ev]

\* ws2812_close_tx.
ws2812_close_tx(plat, d, m) ==
    IF ~m.prep THEN m
    ELSE LET s0 == IF plat = "STM8S"
                   THEN [I |-> TRUE, ev |-> m.ev \o <<Sei, PrepWr(FALSE)>>]
                   ELSE [I |-> TRUE, ev |-> m.ev \o <<SregWr(m.sreg_prev), Sei, PrepWr(FALSE)>>]
             s1 == ws2812_wait_rst(plat, d, s0)
         IN  [m EXCEPT !.I = s1.I, !.prep = FALSE, !.ev = s1.ev]

\* ------------------------------------------------------- the busy wait
\* STM8S: helper constants of delay_us.
F_CPU_STM8S == 16000000
TICKS_PER_LOOP == 2
LOOPS_PER_US == (F_CPU_STM8S \div TICKS_PER_LOOP) \div 1000000
LDW_OVERHEAD == 2

\* The value the loop register starts with.  STM8S: the uint16_t
\* _us_loops_remaining = (us * LOOPS_PER_US) - LDW_OVERHEAD, loaded into X;
\* AVR: uint8_t i = 0; Arduino: delayMicroseconds counts its argument.
DelayStart(plat, us) ==
    IF plat = "STM8S" THEN (us * LOOPS_PER_US - LDW_OVERHEAD) % 65536 ELSE 0

\* Variant of the register update in which the register keeps its value.
DelayNext_stuck(plat, c, us) == [run |-> TRUE, ctr |-> c]

\* One pass of the loop from register value c: whether another pass
\* follows (run) and the register after it.  STM8S: decw x; jrne.  AVR:
\* i < us tested first, then _delay_us(1); i++.
DelayNext(plat, c, us) ==
    IF plat = "STM8S"
    THEN [run |-> (c - 1) % 65536 # 0, ctr |-> (c - 1) % 65536]
    ELSE IF c < us THEN [run |-> TRUE, ctr |-> c + 1] ELSE [run |-> FALSE, ctr |-> c]

\* ------------------------------------------------------ the bit timing
\* AVR: pulse lengths in ns and the cycles the loop spends without padding.
w_zeropulse == 350
w_onepulse == 900
w_totalperiod == 1250
w_fixedlow == 3
w_fixedhigh == 6
w_fixedtotal == 10

\* The preprocessor computes in intmax_t, or in uintmax_t once an operand
\* is unsigned, which F_CPU makes every expression below.  A value is kept
\* here by its signed representative; the unsigned reading of a negative
\* representative is the value wrapped modulo 2^64.
w_zerocycles(f) == ((f \div 1000) * w_zeropulse) \div 1000000
w_onecycles(f) == ((f \div 1000) * w_onepulse + 500000) \div 1000000
w_totalcycles(f) == ((f \div 1000) * w_totalperiod + 500000) \div 1000000
w1(f) == w_zerocycles(f) - w_fixedlow
w2(f) == w_onecycles(f) - w_fixedhigh - w1(f)
w3(f) == w_totalcycles(f) - w_fixedtotal - w1(f) - w2(f)

\* #if x>0: a wrapped value is a large positive one.
Positive(u, x) == IF u THEN x # 0 ELSE x > 0

w1_nops(f, u) == IF Positive(u, w1(f)) THEN w1(f) ELSE 0
w2_nops(f, u) == IF Positive(u, w2(f)) THEN w2(f) ELSE 0
w3_nops(f, u) == IF Positive(u, w3(f)) THEN w3(f) ELSE 0

w_lowtime(f, u) == ((w1_nops(f, u) + w_fixedlow) * 1000000) \div (f \div 1000)

\* Whether the preprocessor stops the build with #error.
BuildError(plat, f, u) ==
    IF plat = "STM8S" THEN f # F_CPU_STM8S ELSE w_lowtime(f, u) > 550

\* The cycles of the padding emitted for a count n: the blocks w_nop1,
\* w_nop2, w_nop4, w_nop8, w_nop16 under #if (n&1) .. #if (n&16).
NopBlocks(n) ==
    LET blk(k) == IF (n \div k) % 2 = 1 THEN k ELSE 0
    IN  blk(1) + blk(2) + blk(4) + blk(8) + blk(16)

\* AVR: the cycle, counted from the start of one pass of the loop as in
\* the comments of the assembly, at whose end the store marked at is done.
\* st 2; sbrs 1 or 2 when it skips; lsl 1; brcc 1 or 2 when taken.
StoreCycleAVR(at, f, u) ==
    IF at = "rise" THEN 2
    ELSE IF at = "fall_early" THEN 2 + NopBlocks(w1_nops(f, u)) + 1 + 2
    ELSE 2 + NopBlocks(w1_nops(f, u)) + 2 + 1 + NopBlocks(w2_nops(f, u)) + 1 + 2

\* AVR: the cycles of one pass of the loop for a 0 bit (fall_early) and
\* for a 1 bit (fall_late); dec and brne count 1 each.
BitCyclesAVR(at, f, u) ==
    IF at = "fall_early"
    THEN StoreCycleAVR(at, f, u) + 1 + NopBlocks(w2_nops(f, u)) + 2 + NopBlocks(w3_nops(f, u)) + 1 + 1
    ELSE StoreCycleAVR(at, f, u) + NopBlocks(w3_nops(f, u)) + 1 + 1

\* STM8S: the instructions of the two bit routines.
Nops(n) == [i \in 1..n |-> "nop"]
ws2812_tx_bit_1_code == <<"ldw", "ld", "or", "st">> \o Nops(8) \o <<"and", "st">> \o Nops(7)
ws2812_tx_bit_0_code == <<"ldw", "ld", "or", "st">> \o Nops(2) \o <<"and", "st">> \o Nops(10)

\* Cycles of an instruction as the comments give them.
InstrCycles(ins) == IF ins = "ldw" THEN 2 ELSE 1

RECURSIVE CodeCycles(_, _)
\* Cycles of the first n instructions of code.
CodeCycles(code, n) ==
    IF n = 0 THEN 0 ELSE CodeCycles(code, n - 1) + InstrCycles(code[n])

\* STM8S: the cycle at whose end the store marked at is done: the first
\* st of the routine raises the line, the second lowers it.
StoreCycleSTM8S(at) ==
    LET code == IF at = "fall_late" THEN ws2812_tx_bit_1_code
                ELSE IF at = "fall_early" THEN ws2812_tx_bit_0_code
                ELSE ws2812_tx_bit_1_code
        sts == {i \in 1..Len(code) : code[i] = "st"}
        first == CHOOSE i \in sts : \A j \in sts : i <= j
        second == CHOOSE i \in sts : \A j \in sts : j <= i
    IN  CodeCycles(code, IF at = "rise" THEN first ELSE second)

BitCyclesSTM8S(at) ==
    LET code == IF at = "fall_late" THEN ws2812_tx_bit_1_code ELSE ws2812_tx_bit_0_code
    IN  CodeCycles(code, Len(code))

\* Cycles between the store that raises the line and the store marked at
\* that lowers it, and cycles of the whole bit.
HighCycles(plat, at, f, u) ==
    IF plat = "STM8S" THEN StoreCycleSTM8S(at) - StoreCycleSTM8S("rise")
    ELSE StoreCycleAVR(at, f, u) - StoreCycleAVR("rise", f, u)

BitCycles(plat, at, f, u) ==
    IF plat = "STM8S" THEN BitCyclesSTM8S(at) ELSE BitCyclesAVR(at, f, u)

\* --------------------------------------------------- what the strip sees
\* The devices wired to the pins M of port p see a line that is high when
\* every pin of M is high and low when every pin of M is low.  A bit is a
\* store that drives the line high followed by a store that drives it low;
\* the fall comes early for a 0 and late for a 1.  Eight bits, most
\* significant first, make a byte; a busy wait is the reset.  A group of
\* stores that spells no byte is a glitch (v = -1).
ByteItem(v) == [k |-> "byte", v |-> v]
RstItem(us) == [k |-> "rst", v |-> us]
Glitch == [k |-> "glitch", v |-> -1]

\* value of a sequence of bits read most significant first
RECURSIVE BitsValue(_)
BitsValue(bits) ==
    IF bits = <<>> THEN 0
    ELSE 2 * BitsValue(SubSeq(bits, 1, Len(bits) - 1)) + bits[Len(bits)]

\* The i-th pair of stores ws to the port: the bit it spells on pins M, or
\* -1 when it is no rise followed by a fall.
BitAt(ws, i, M) ==
    LET r == ws[2 * i - 1]
        f == ws[2 * i]
    IN  IF /\ r.at = "rise" /\ BitAnd(r.val, M) = M
           /\ f.at \in {"fall_early", "fall_late"} /\ BitAnd(f.val, M) = 0
        THEN IF f.at = "fall_late" THEN 1 ELSE 0
        ELSE -1

\* The n-th group of eight bits.
ByteAt(ws, n, M) ==
    LET bits == [k \in 1..8 |-> BitAt(ws, 8 * (n - 1) + k, M)] IN
    IF \E k \in 1..8 : bits[k] = -1 THEN Glitch ELSE ByteItem(BitsValue(bits))

\* The items spelled by a run of stores with no reset in it.
WireBytes(ws, M) ==
    [n \in 1..(Len(ws) \div 16) |-> ByteAt(ws, n, M)] \o (IF Len(ws) % 16 = 0 THEN <<>> ELSE <<Glitch>>)

\* The items the devices on pins M of port p receive from the events evs.
RECURSIVE Wire(_, _, _)
Wire(evs, p, M) ==
    LET seen == SelectSeq(evs, LAMBDA e : e.k = "rst" \/ (e.k = "st" /\ e.port = p)) IN
    IF \A i \in 1..Len(seen) : seen[i].k # "rst" THEN WireBytes(seen, M)
    ELSE LET i == CHOOSE i \in 1..Len(seen) : seen[i].k = "rst" /\ \A j \in 1..(i - 1) : seen[j].k # "rst"
         IN  WireBytes(SubSeq(seen, 1, i - 1), M) \o <<RstItem(seen[i].val)>>
                 \o Wire(SubSeq(seen, i + 1, Len(seen)), p, M)

\* The bytes a pixel puts on the wire under a colour map, in wire order.
PxlBytes(map, pxl) == [j \in 1..3 |-> ByteItem(pxl[map[j] + 1])]

RECURSIVE PxlsBytes(_, _)
PxlsBytes(map, pxls) ==
    IF pxls = <<>> THEN <<>> ELSE PxlBytes(map, Head(pxls)) \o PxlsBytes(map, Tail(pxls))

\* ---------------------------------------------------------------- state
VARIABLES
    platform,        \* the target the library was built for
    I_flag,          \* the global interrupt-enable flag (SREG.I, CC.I)
    _prep,           \* static bool _prep
    _sreg_prev,      \* AVR: the I bit of static uint8_t _sreg_prev
    _port_odr_addr,  \* STM8S: static _port_odr_addr
    _mask_hi,        \* STM8S: static _mask_hi
    _mask_lo,        \* STM8S: static _mask_lo
    dev,             \* the application's device handles
    PORT,            \* the output registers
    DDR,             \* the data-direction registers
    call,            \* the library call that returned last
    ev,              \* the events of that call
    open,            \* what held just before the prepare that opened the bracket
    br,              \* the bracket under way or just closed, while it is a plain
                     \* one: prepare, at most MaxSent pixels in tx calls and
                     \* close, all on one handle, and no other call
    pc,              \* where the processor stands: "app" in application code,
                     \* "delay" inside the busy-wait loop of a reset wait
    ctr,             \* the loop register of that busy wait (AVR: i, STM8S: X)
    F_CPU,           \* the clock frequency in Hz the build was given as F_CPU
    F_CPU_u          \* whether that literal carries an unsigned suffix (U, UL)

vars == <<platform, I_flag, _prep, _sreg_prev, _port_odr_addr, _mask_hi, _mask_lo, dev, PORT, DDR, call, ev, open, br, pc, ctr, F_CPU, F_CPU_u>>

\* --------------------------------------------------------------- inputs
\* sequences over S of length 0..n
RECURSIVE SeqsUpTo(_, _)
SeqsUpTo(S, n) ==
    IF n = 0 THEN {<<>>}
    ELSE LET T == SeqsUpTo(S, n - 1) IN T \cup {Append(t, x) : t \in T, x \in S}

\* The cfg.pins arrays the application may pass (n_dev is their length):
\* bit numbers on bare AVR, Arduino pin numbers (0 and 1 on one port, 8 on
\* another), GPIO_PIN_x masks on STM8S.
PinArrays(plat) ==
    CASE plat = "AVR"         -> {<<>>, <<0>>, <<1>>, <<0, 1>>}
      [] plat = "ARDUINO_AVR" -> {<<>>, <<0>>, <<1>>, <<0, 1>>, <<8>>, <<0, 8>>, <<0, 1, 8>>}
      [] plat = "STM8S"       -> {<<>>, <<1>>, <<2>>, <<1, 2>>}

\* cfg.port / cfg.port_baseaddr; Arduino configurations carry no port.
PortChoices(plat) == IF plat = "ARDUINO_AVR" THEN {0} ELSE Ports

Cfgs(plat, rsts, orders) ==
    [port : PortChoices(plat), pins : PinArrays(plat), rst_time_us : rsts, order : orders]

\* Values the application stores to an output register outside a bracket.
AppVals == {0, 4}

\* A ws2812_cfg the application has not filled in.
NoCfg == [port |-> 0, pins |-> <<>>, rst_time_us |-> 0, order |-> rgb]
\* call: the operation, its handle, its return value and its arguments.
NoCall == [op |-> "none", h |-> "-", ret |-> 0, n_dev |-> 0, pxls |-> <<>>, cfg |-> NoCfg]
\* open: the handle of the opening prepare, the interrupt-enable flag and the
\* registers just before it, and the handles that called prepare again since.
NoOpen == [h |-> "-", I |-> FALSE, PORT |-> [a \in Addrs |-> 0], again |-> {}]
NoBr == [on |-> FALSE, sent |-> <<>>, bus |-> <<>>]

\* The file's statics and the flag, as the handlers take them.
Mach == [I |-> I_flag, prep |-> _prep, sreg_prev |-> _sreg_prev, odr |-> _port_odr_addr, hi |-> _mask_hi, lo |-> _mask_lo, ev |-> <<>>]
Stat == [odr |-> _port_odr_addr, hi |-> _mask_hi, lo |-> _mask_lo]

\* What a call that is no part of a plain bracket leaves of the records.
OpenKept == IF _prep THEN open ELSE NoOpen

\* --------------------------------------------------------------- actions
\* State at program start: statics zero-initialised, handles unwritten,
\* registers at their reset value, interrupts enabled or not.
InitWith(plats) ==
    /\ platform \in plats
    /\ I_flag \in BOOLEAN
    /\ _prep = FALSE
    /\ _sreg_prev = FALSE
    /\ _port_odr_addr = 0
    /\ _mask_hi = 0
    /\ _mask_lo = 0
    /\ dev = [h \in Handles |-> NoDev]
    /\ PORT = [a \in Addrs |-> 0]
    /\ DDR = [a \in Addrs |-> 0]
    /\ call = NoCall
    /\ ev = <<>>
    /\ open = NoOpen
    /\ br = NoBr
    /\ pc = "app"
    /\ ctr = 0
    /\ F_CPU = F_CPU_STM8S
    /\ F_CPU_u = FALSE

Init == InitWith(Platforms)

\* ws2812_config(&dev[h], cfg)
Config(h, cfg) ==
    LET r == ws2812_config(platform, dev[h], cfg, PORT, DDR) IN
    /\ dev' = [dev EXCEPT ![h] = r.dev]
    /\ PORT' = r.PORT
    /\ DDR' = r.DDR
    /\ call' = [NoCall EXCEPT !.op = "config", !.h = h, !.ret = r.ret, !.n_dev = Len(cfg.pins), !.cfg = cfg]
    /\ ev' = <<>>
    /\ open' = OpenKept
    /\ br' = NoBr
    /\ UNCHANGED <<F_CPU, F_CPU_u, pc, ctr, platform, I_flag, _prep, _sreg_prev, _port_odr_addr, _mask_hi, _mask_lo>>

\* ws2812_prep_tx(&dev[h])
PrepTx(h) ==
    LET m == ws2812_prep_tx(platform, dev[h], Mach) IN
    /\ dev[h].init
    /\ I_flag' = m.I
    /\ _prep' = m.prep
    /\ _sreg_prev' = m.sreg_prev
    /\ _port_odr_addr' = m.odr
    /\ _mask_hi' = m.hi
    /\ _mask_lo' = m.lo
    /\ ev' = m.ev
    /\ call' = [NoCall EXCEPT !.op = "prep_tx", !.h = h]
    /\ open' = IF _prep THEN [open EXCEPT !.again = @ \cup {h}]
                ELSE [h |-> h, I |-> I_flag, PORT |-> PORT, again |-> {}]
    /\ br' = IF _prep THEN NoBr ELSE [NoBr EXCEPT !.on = TRUE]
    /\ UNCHANGED <<F_CPU, F_CPU_u, pc, ctr, platform, dev, PORT, DDR>>

\* ws2812_tx(&dev[h], pxls, Len(pxls))
Tx(h, pxls) ==
    LET io == ws2812_tx(platform, dev[h], Stat, PORT, pxls) IN
    /\ dev[h].init
    /\ PORT' = io.PORT
    /\ ev' = io.ev
    /\ call' = [NoCall EXCEPT !.op = "tx", !.h = h, !.pxls = pxls]
    /\ open' = OpenKept
    /\ br' = IF _prep /\ br.on /\ h = open.h /\ Len(br.sent) + Len(pxls) <= MaxSent
             THEN [on |-> TRUE, sent |-> br.sent \o pxls,
                   bus |-> br.bus \o Wire(io.ev, dev[h].port, PinMsk(dev[h]))]
             ELSE NoBr
    /\ UNCHANGED <<F_CPU, F_CPU_u, pc, ctr, platform, I_flag, _prep, _sreg_prev, _port_odr_addr, _mask_hi, _mask_lo, dev, DDR>>

\* ws2812_wait_rst(&dev[h])
WaitRst(h) ==
    LET s == ws2812_wait_rst(platform, dev[h], [I |-> I_flag, ev |-> <<>>]) IN
    /\ dev[h].init
    /\ I_flag' = s.I
    /\ ev' = s.ev
    /\ call' = [NoCall EXCEPT !.op = "wait_rst", !.h = h]
    /\ open' = OpenKept
    /\ br' = NoBr
    /\ UNCHANGED <<F_CPU, F_CPU_u, pc, ctr, platform, _prep, _sreg_prev, _port_odr_addr, _mask_hi, _mask_lo, dev, PORT, DDR>>

\* Variant of the close action in which a close that ends a bracket also
\* clears the handle it was given.
CloseTx_releasing(h) ==
    LET m == ws2812_close_tx(platform, dev[h], Mach) IN
    /\ dev[h].init
    /\ I_flag' = m.I
    /\ _prep' = m.prep
    /\ _sreg_prev' = m.sreg_prev
    /\ _port_odr_addr' = m.odr
    /\ _mask_hi' = m.hi
    /\ _mask_lo' = m.lo
    /\ ev' = m.ev
    /\ call' = [NoCall EXCEPT !.op = "close_tx", !.h = h]
    /\ open' = OpenKept
    /\ br' = NoBr
    /\ dev' = IF _prep THEN [dev EXCEPT ![h] = NoDev] ELSE dev
    /\ UNCHANGED <<F_CPU, F_CPU_u, pc, ctr, platform, PORT, DDR>>

\* ws2812_close_tx(&dev[h])
CloseTx(h) ==
    LET m == ws2812_close_tx(platform, dev[h], Mach) IN
    /\ dev[h].init
    /\ I_flag' = m.I
    /\ _prep' = m.prep
    /\ _sreg_prev' = m.sreg_prev
    /\ _port_odr_addr' = m.odr
    /\ _mask_hi' = m.hi
    /\ _mask_lo' = m.lo
    /\ ev' = m.ev
    /\ call' = [NoCall EXCEPT !.op = "close_tx", !.h = h]
    /\ open' = OpenKept
    /\ br' = IF _prep /\ br.on /\ h = open.h
             THEN [br EXCEPT !.bus = br.bus \o Wire(m.ev, dev[h].port, PinMsk(dev[h]))]
             ELSE NoBr
    /\ UNCHANGED <<F_CPU, F_CPU_u, pc, ctr, platform, dev, PORT, DDR>>

\* The application stores v to output register p; it does so outside
\* brackets only.
AppWrite(p, v) ==
    /\ ~_prep
    /\ PORT[p] # v
    /\ PORT' = [PORT EXCEPT ![p] = v]
    /\ call' = [NoCall EXCEPT !.op = "app"]
    /\ ev' = <<>>
    /\ open' = NoOpen
    /\ br' = NoBr
    /\ UNCHANGED <<F_CPU, F_CPU_u, pc, ctr, platform, I_flag, _prep, _sreg_prev, _port_odr_addr, _mask_hi, _mask_lo, dev, DDR>>

\* The same calls with the busy wait of the reset taken pass by pass.
\* ws2812_wait_rst(&dev[h]) up to the entry of the loop.
WaitRstBegin(h) ==
    /\ pc = "app"
    /\ dev[h].init
    /\ I_flag' = IF platform = "ARDUINO_AVR" THEN I_flag ELSE FALSE
    /\ ev' = IF platform = "ARDUINO_AVR" THEN <<>> ELSE <<Cli>>
    /\ ctr' = DelayStart(platform, dev[h].rst_time_us)
    /\ pc' = "delay"
    /\ call' = [NoCall EXCEPT !.op = "wait_rst", !.h = h]
    /\ open' = OpenKept
    /\ br' = NoBr
    /\ UNCHANGED <<F_CPU, F_CPU_u, platform, _prep, _sreg_prev, _port_odr_addr, _mask_hi, _mask_lo, dev, PORT, DDR>>

\* ws2812_close_tx(&dev[h]): the whole call in Idle, and in Prepared the
\* call up to the entry of the loop of its reset wait.
CloseTxBegin(h) ==
    /\ pc = "app"
    /\ dev[h].init
    /\ call' = [NoCall EXCEPT !.op = "close_tx", !.h = h]
    /\ open' = OpenKept
    /\ br' = NoBr
    /\ IF ~_prep
       THEN /\ ev' = <<>>
            /\ UNCHANGED <<I_flag, _prep, pc, ctr>>
       ELSE /\ ev' = (IF platform = "STM8S" THEN <<Sei, PrepWr(FALSE)>>
                      ELSE <<SregWr(_sreg_prev), Sei, PrepWr(FALSE)>>)
                     \o (IF platform = "ARDUINO_AVR" THEN <<>> ELSE <<Cli>>)
            /\ I_flag' = (platform = "ARDUINO_AVR")
            /\ _prep' = FALSE
            /\ ctr' = DelayStart(platform, dev[h].rst_time_us)
            /\ pc' = "delay"
    /\ UNCHANGED <<F_CPU, F_CPU_u, platform, _sreg_prev, _port_odr_addr, _mask_hi, _mask_lo, dev, PORT, DDR>>

\* One pass of the loop, or the way out of it and back to the application.
DelayStep ==
    LET us == dev[call.h].rst_time_us
        n == DelayNext(platform, ctr, us)
    IN  /\ pc = "delay"
        /\ ctr' = n.ctr
        /\ IF n.run
           THEN UNCHANGED <<pc, I_flag, ev>>
           ELSE /\ pc' = "app"
                /\ I_flag' = IF platform = "ARDUINO_AVR" THEN I_flag ELSE TRUE
                /\ ev' = ev \o (IF platform = "ARDUINO_AVR" THEN <<Rst(us)>> ELSE <<Rst(us), Sei>>)
        /\ UNCHANGED <<F_CPU, F_CPU_u, platform, _prep, _sreg_prev, _port_odr_addr, _mask_hi, _mask_lo, dev, PORT, DDR, call, open, br>>

\* ------------------------------------------------- session specification
\* The application owns one handle on one port and calls the library in
\* any order, on any target.
RstTimes == {50}
CfgOrders == {grb}
Pixels == {<<10, 20, 30>>}
SessionCfgs == {c \in Cfgs(platform, RstTimes, CfgOrders) : c.port \in {0, 1}}

Next ==
    \/ \E cfg \in SessionCfgs : Config("A", cfg)
    \/ PrepTx("A")
    \/ \E pxls \in SeqsUpTo(Pixels, MaxPxls) : Tx("A", pxls)
    \/ WaitRst("A")
    \/ CloseTx("A")
    \/ \E v \in AppVals : AppWrite(1, v)

Spec == Init /\ [][Next]_vars

\* ------------------------------------------------- bracket specification
\* The application of the examples: one strip on one pin, configured once
\* or again, and brackets of white and black pixels.
White == <<255, 255, 255>>
Black == <<0, 0, 0>>
BracketCfgs == {c \in Cfgs(platform, RstTimes, CfgOrders) : c.port \in {0, 1} /\ Len(c.pins) = 1}

NextBracket ==
    \/ \E cfg \in BracketCfgs : Config("A", cfg)
    \/ PrepTx("A")
    \/ \E pxls \in SeqsUpTo({White, Black}, MaxPxls) : Tx("A", pxls)
    \/ WaitRst("A")
    \/ CloseTx("A")

SpecBracket == Init /\ [][NextBracket]_vars

\* --------------------------------------------------- pixel specification
\* One pixel at a time through a configured handle inside an open bracket:
\* every colour order, every byte value.
ByteSamples == {10, 20, 30}
PxlSamples == {<<r, g, b>> : r \in ByteSamples, g \in ByteSamples, b \in ByteSamples} \cup {<<v, 255 - v, (7 * v) % 256>> : v \in 0..255}
PxlCfgs == {c \in Cfgs(platform, RstTimes, Orders) : c.port \in {0, 1} /\ Len(c.pins) = 1}

\* The state after ws2812_config(&dev["A"], cfg) and ws2812_prep_tx at
\* program start.
InitPxl ==
    /\ platform \in Platforms
    /\ \E cfg \in PxlCfgs, i0 \in BOOLEAN :
         LET r == ws2812_config(platform, NoDev, cfg, [a \in Addrs |-> 0], [a \in Addrs |-> 0])
             m == ws2812_prep_tx(platform, r.dev, [I |-> i0, prep |-> FALSE, sreg_prev |-> FALSE, odr |-> 0, hi |-> 0, lo |-> 0, ev |-> <<>>])
         IN  /\ I_flag = m.I
             /\ _prep = m.prep
             /\ _sreg_prev = m.sreg_prev
             /\ _port_odr_addr = m.odr
             /\ _mask_hi = m.hi
             /\ _mask_lo = m.lo
             /\ dev = [h \in Handles |-> IF h = "A" THEN r.dev ELSE NoDev]
             /\ PORT = r.PORT
             /\ DDR = r.DDR
             /\ ev = m.ev
             /\ open = [h |-> "A", I |-> i0, PORT |-> r.PORT, again |-> {}]
    /\ call = [NoCall EXCEPT !.op = "prep_tx", !.h = "A"]
    /\ br = NoBr
    /\ pc = "app"
    /\ ctr = 0
    /\ F_CPU = F_CPU_STM8S
    /\ F_CPU_u = FALSE

\* The first ws2812_tx of the bracket.
NextPxl == call.op = "prep_tx" /\ \E pxl \in PxlSamples : Tx("A", <<pxl>>)

SpecPxl == InitPxl /\ [][NextPxl]_vars

\* --------------------------------------------- colour-order specification
\* The application configures one strip on one pin, again and again, with
\* any of the six colour orders.
NextOrder == \E cfg \in PxlCfgs : Config("A", cfg)

SpecOrder == Init /\ [][NextOrder]_vars

\* ------------------------------------------------ any-order specification
\* The application configures one strip on one pin with any value in the
\* order field, an enumerator or not, and sends a pixel of three different
\* channel values in brackets or outside them.
AnyOrders == Orders \cup {6, 7, 255}
AnyOrderCfgs == {c \in Cfgs(platform, RstTimes, AnyOrders) : c.port \in {0, 1} /\ Len(c.pins) = 1}

NextAnyOrder ==
    \/ \E cfg \in AnyOrderCfgs : Config("A", cfg)
    \/ PrepTx("A")
    \/ \E pxl \in Pixels : Tx("A", <<pxl>>)
    \/ CloseTx("A")

SpecAnyOrder == Init /\ [][NextAnyOrder]_vars

\* ------------------------------------------- configuration specification
\* The application configures one handle, again and again, with any pin
\* array and port, starting from registers that other parts of the program
\* have already written.
RegSamples == {0, 4, 165, 255}

\* The cfg.pins arrays of this specification: bit numbers on bare AVR,
\* Arduino pin numbers (0..7 on one port, 8..13 on another), GPIO_PIN_x
\* masks on STM8S.
CfgPinArrays(plat) ==
    CASE plat = "AVR"         -> {<<>>, <<0>>, <<7>>, <<0, 1>>, <<2, 5>>, <<0, 1, 7>>}
      [] plat = "ARDUINO_AVR" -> {<<>>, <<0>>, <<8>>, <<0, 1>>, <<9, 13>>, <<0, 8>>, <<8, 0>>,
                                  <<0, 1, 8>>, <<0, 8, 1>>, <<8, 9, 0>>, <<0, 1, 2, 8>>}
      [] plat = "STM8S"       -> {<<>>, <<1>>, <<128>>, <<1, 2>>, <<4, 32>>}

CfgCfgs ==
    [port : PortChoices(platform), pins : CfgPinArrays(platform), rst_time_us : RstTimes, order : CfgOrders]

\* Program start with the registers at any of the sample values.
InitCfg ==
    /\ platform \in Platforms
    /\ I_flag \in BOOLEAN
    /\ _prep = FALSE
    /\ _sreg_prev = FALSE
    /\ _port_odr_addr = 0
    /\ _mask_hi = 0
    /\ _mask_lo = 0
    /\ dev = [h \in Handles |-> NoDev]
    /\ \E p0 \in RegSamples : PORT = [a \in Addrs |-> IF a = 0 THEN 0 ELSE p0]
    /\ \E d0 \in RegSamples : DDR = [a \in Addrs |-> IF a = 0 THEN 0 ELSE d0]
    /\ call = NoCall
    /\ ev = <<>>
    /\ open = NoOpen
    /\ br = NoBr
    /\ pc = "app"
    /\ ctr = 0
    /\ F_CPU = F_CPU_STM8S
    /\ F_CPU_u = FALSE

NextCfg == \E cfg \in CfgCfgs : Config("A", cfg)

SpecCfg == InitCfg /\ [][NextCfg]_vars

\* ---------------------------------------------- two-handle specification
\* The application owns two strips, A and B, on different ports and pins
\* and with different reset times, and calls the library on either in any
\* order.
TwoCfg(h) ==
    IF h = "A"
    THEN [port |-> IF platform = "ARDUINO_AVR" THEN 0 ELSE 1,
          pins |-> IF platform = "STM8S" THEN <<1>> ELSE <<0>>,
          rst_time_us |-> 50, order |-> grb]
    ELSE [port |-> IF platform = "ARDUINO_AVR" THEN 0 ELSE 2,
          pins |-> IF platform = "STM8S" THEN <<2>> ELSE IF platform = "AVR" THEN <<1>> ELSE <<9>>,
          rst_time_us |-> 80, order |-> grb]

NextTwo ==
    \/ \E h \in Handles : Config(h, TwoCfg(h))
    \/ \E h \in Handles : PrepTx(h)
    \/ \E h \in Handles : Tx(h, <<<<10, 20, 30>>>>)
    \/ \E h \in Handles : WaitRst(h)
    \/ \E h \in Handles : CloseTx(h)

SpecTwo == Init /\ [][NextTwo]_vars

\* -------------------------------------------------- timing specification
\* One strip on one pin with a reset time of 0, 1, 50 or 255 microseconds;
\* the reset waits of wait_rst and close run pass by pass, and the
\* processor never stops inside the loop.
DelayRstTimes == {0, 1, 50, 255}
DelayCfgs == {c \in Cfgs(platform, DelayRstTimes, CfgOrders) : c.port \in {0, 1} /\ Len(c.pins) = 1 /\ c.pins[1] \in {0, 1}}

NextDelay ==
    \/ \E cfg \in DelayCfgs : pc = "app" /\ ~dev["A"].init /\ Config("A", cfg)
    \/ pc = "app" /\ PrepTx("A")
    \/ \E pxls \in SeqsUpTo(Pixels, MaxPxls) : pc = "app" /\ Tx("A", pxls)
    \/ WaitRstBegin("A")
    \/ CloseTxBegin("A")
    \/ DelayStep

\* The program starts with interrupts enabled.
InitDelay == Init /\ I_flag

SpecDelay == InitDelay /\ [][NextDelay]_vars /\ WF_vars(DelayStep)

\* --------------------------------------------------- build specification
\* The library built for a clock of 1 to 20 MHz, written with or without
\* an unsigned suffix; a build the preprocessor refuses has no program to
\* run.  One strip on one pin, brackets of one pixel.
Clocks == {k * 1000000 : k \in 1..20}
BuildCfgs == {c \in Cfgs(platform, RstTimes, CfgOrders) : c.port \in {0, 1} /\ Len(c.pins) = 1 /\ c.pins[1] \in {0, 1}}

InitBuild ==
    /\ platform \in Platforms
    /\ F_CPU \in Clocks
    /\ F_CPU_u \in BOOLEAN
    /\ I_flag = TRUE
    /\ _prep = FALSE
    /\ _sreg_prev = FALSE
    /\ _port_odr_addr = 0
    /\ _mask_hi = 0
    /\ _mask_lo = 0
    /\ dev = [h \in Handles |-> NoDev]
    /\ PORT = [a \in Addrs |-> 0]
    /\ DDR = [a \in Addrs |-> 0]
    /\ call = NoCall
    /\ ev = <<>>
    /\ open = NoOpen
    /\ br = NoBr
    /\ pc = "app"
    /\ ctr = 0

Built == ~BuildError(platform, F_CPU, F_CPU_u)

NextBuild ==
    \/ \E cfg \in BuildCfgs : Built /\ Config("A", cfg)
    \/ Built /\ PrepTx("A")
    \/ \E pxls \in SeqsUpTo(Pixels, MaxPxls) : Built /\ Tx("A", pxls)
    \/ Built /\ CloseTx("A")

SpecBuild == InitBuild /\ [][NextBuild]_vars

\* ================================================================ claims
\* The machine state the library owns or touches, without the records of
\* the last call.
mach == <<I_flag, _prep, _sreg_prev, _port_odr_addr, _mask_hi, _mask_lo, dev, PORT, DDR>>

\* The last call was made on a handle whose port and masks are the ones the
\* bit routines use (on STM8S these are the statics ws2812_prep_tx set).
Aimed ==
    platform = "STM8S" =>
        /\ _port_odr_addr = dev[call.h].port
        /\ _mask_hi = dev[call.h].maskhi
        /\ _mask_lo = dev[call.h].masklo

\* What the strip on the last call's handle received from the last call.
LastWire == Wire(ev, dev[call.h].port, PinMsk(dev[call.h]))

\* C1: between a prepare and the close that ends the bracket, whatever tx,
\* wait_rst and repeated prepare calls come in between, the global
\* interrupt-enable flag is clear.
C1_InterruptsOffInBracket == _prep => ~I_flag

\* C2: when the close of a bracket of prepare, tx calls and close returns,
\* the interrupt-enable flag has the value it had just before the prepare.
C2_CloseRestoresInterrupts ==
    (call.op = "close_tx" /\ ~_prep /\ br.on) => I_flag = open.I

\* C3: a prepare called while the session is Prepared changes nothing: the
\* session stays Prepared, and the snapshot, the interrupt-enable flag, the
\* statics, the handles and the registers keep their values; on AVR the
\* snapshot is still the value the first prepare captured.
C3_PrepareIdempotent ==
    [][(call'.op = "prep_tx" /\ _prep) =>
         /\ _prep'
         /\ mach' = mach
         /\ (platform # "STM8S" => _sreg_prev' = open.I)]_vars

\* C3 witness: on AVR a repeated prepare has returned in a bracket that was
\* opened with interrupts enabled, and the snapshot still says so.
C3_Witness ==
    /\ call.op = "prep_tx" /\ _prep /\ ~br.on
    /\ platform = "AVR" /\ open.I /\ _sreg_prev /\ ~I_flag

\* C4: a close called while the session is Idle changes neither the
\* interrupt-enable flag nor the session flag nor the snapshot nor anything
\* else, and waits for no reset.
C4_CloseIdleNoOp ==
    [][(call'.op = "close_tx" /\ ~_prep) => (mach' = mach /\ ev' = <<>>)]_vars

\* C4 witness: a close has returned in Idle with interrupts disabled, as
\* they were, and without any event.
C4_Witness == call.op = "close_tx" /\ ~_prep /\ ev = <<>> /\ ~I_flag /\ ~br.on

\* C5: in a bracket of prepare and tx calls on one handle, with no other
\* write to the register, every store of tx leaves every bit outside the
\* handle's pin mask as it was just before prepare.
C5_TxKeepsOtherBits ==
    (call.op = "tx" /\ _prep /\ br.on) =>
        \A i \in 1..Len(ev) :
            ev[i].k = "st" =>
                BitAnd(ev[i].val, BitNot(PinMsk(dev[call.h])))
                    = BitAnd(open.PORT[ev[i].port], BitNot(PinMsk(dev[call.h])))

\* The channel of a pixel a letter of a colour order's name stands for
\* (struct ws2812_rgb holds r, g, b in this order).
Chan(pxl, c) == CASE c = "r" -> pxl[1] [] c = "g" -> pxl[2] [] c = "b" -> pxl[3]

\* The names of the colour orders, letter by letter.
OrderName(o) ==
    CASE o = rgb -> <<"r", "g", "b">>
      [] o = rbg -> <<"r", "b", "g">>
      [] o = brg -> <<"b", "r", "g">>
      [] o = bgr -> <<"b", "g", "r">>
      [] o = grb -> <<"g", "r", "b">>
      [] o = gbr -> <<"g", "b", "r">>

\* The bytes of a pixel in the order a colour order's name spells.
Spelled(o, pxl) == [j \in 1..3 |-> ByteItem(Chan(pxl, OrderName(o)[j]))]

\* C6: a tx of one pixel through a handle configured with a colour order
\* puts exactly three bytes on the wire, byte j being channel rgbmap[j] of
\* the pixel, and they spell the order's name.
C6_WireOrder ==
    (call.op = "tx" /\ Aimed) =>
        /\ LastWire = PxlsBytes(dev[call.h].rgbmap, call.pxls)
        /\ \A o \in Orders :
               _ws2812_get_rgbmap(o) = dev[call.h].rgbmap => LastWire = Spelled(o, call.pxls[1])

\* C6 witness: (10,20,30) has gone out as (30,10,20) through a brg handle,
\* as (20,10,30) through a grb one or as (30,20,10) through a bgr one.
C6_Witness ==
    /\ call.op = "tx" /\ Aimed /\ call.pxls = <<<<10, 20, 30>>>>
    /\ dev[call.h].rgbmap = _ws2812_get_rgbmap(brg)
    /\ LastWire = <<ByteItem(30), ByteItem(10), ByteItem(20)>>

\* The k-th bit of a byte, most significant first (k = 1..8).
BitMsbFirst(byte, k) == (byte \div (2 ^ (8 - k))) % 2

\* C7: every byte of a tx goes out as exactly 8 bit encodings, most
\* significant bit first, each one store that raises the driven pins
\* followed by one store that lowers them, early for a 0 and late for a 1.
C7_ByteEncoding ==
    (call.op = "tx" /\ Aimed) =>
        LET d == dev[call.h]
            M == PinMsk(d)
        IN  /\ Len(ev) = 16 * 3 * Len(call.pxls)
            /\ \A j \in 1..3, k \in 1..8 :
                 LET byte == call.pxls[1][d.rgbmap[j] + 1]
                     r == ev[16 * (j - 1) + 2 * k - 1]
                     f == ev[16 * (j - 1) + 2 * k]
                 IN  /\ r.k = "st" /\ r.port = d.port /\ r.at = "rise"
                     /\ BitAnd(r.val, M) = M
                     /\ f.k = "st" /\ f.port = d.port
                     /\ BitAnd(f.val, M) = 0
                     /\ f.at = IF BitMsbFirst(byte, k) = 1 THEN "fall_late" ELSE "fall_early"

\* C7 witness: 0b10110000 has gone out first, as 1,0,1,1,0,0,0,0.
C7_Witness ==
    /\ call.op = "tx" /\ Aimed
    /\ call.pxls[1][dev[call.h].rgbmap[1] + 1] = 176
    /\ PinMsk(dev[call.h]) # 0
    /\ [k \in 1..8 |-> ev[2 * k].at]
         = <<"fall_late", "fall_early", "fall_late", "fall_late", "fall_early", "fall_early", "fall_early", "fall_early">>

\* The items of a kind among what a bracket put on the wire.
BusOf(kind) == SelectSeq(br.bus, LAMBDA x : x.k = kind)

\* C8: when the close of a bracket of prepare, tx calls and close returns,
\* the wire has carried exactly three bytes per pixel and one reset wait,
\* the reset wait last, and that wait is the one close performed.
C8_BracketBytesAndReset ==
    (call.op = "close_tx" /\ ~_prep /\ br.on) =>
        /\ Len(BusOf("byte")) = 3 * Len(br.sent)
        /\ Len(BusOf("rst")) = 1
        /\ Len(br.bus) = 3 * Len(br.sent) + 1
        /\ br.bus[Len(br.bus)] = RstItem(dev[call.h].rst_time_us)
        /\ Len(SelectSeq(ev, LAMBDA e : e.k = "rst")) = 1

\* C8 witness: white then black in two tx calls on a grb strip, closed: six
\* bytes and then the reset wait.
C8_Witness ==
    /\ call.op = "close_tx" /\ ~_prep /\ br.on
    /\ br.sent = <<White, Black>>
    /\ br.bus = <<ByteItem(255), ByteItem(255), ByteItem(255), ByteItem(0), ByteItem(0), ByteItem(0), RstItem(50)>>

\* C9: inside an open bracket the wire has carried, after any tx calls on
\* the handle, exactly what a single tx of all their pixels in program
\* order puts on it: no reset wait, no byte more or less.
C9_TxConcatenates ==
    (_prep /\ br.on) =>
        br.bus = Wire(ws2812_tx(platform, dev[open.h], Stat, open.PORT, br.sent).ev,
                      dev[open.h].port, PinMsk(dev[open.h]))

\* C9 witness: tx of white and then tx of black have returned in one
\* bracket.
C9_Witness ==
    /\ _prep /\ br.on /\ call.op = "tx" /\ call.pxls = <<Black>>
    /\ br.sent = <<White, Black>>
    /\ Len(br.bus) = 6

\* C10: a config naming zero devices returns a non-zero code and leaves
\* the handle as it was.
C10_NoDevicesRejected ==
    [][(call'.op = "config" /\ call'.n_dev = 0) => (call'.ret # 0 /\ dev' = dev)]_vars

\* Some two pins of the array, adjacent or not, lie on different ports.
Mixed(pins) ==
    \E i, j \in 1..Len(pins) : digitalPinToPort(pins[i]) # digitalPinToPort(pins[j])

\* C11: on Arduino-AVR a config whose pin array holds two pins of different
\* ports, adjacent or not, returns a non-zero code and leaves every field of
\* the handle as it was.
C11_MixedPortsRejected ==
    [][(/\ platform = "ARDUINO_AVR" /\ call'.op = "config"
        /\ Len(call'.cfg.pins) >= 2 /\ Mixed(call'.cfg.pins))
       => (call'.ret # 0 /\ dev' = dev)]_vars

\* C11 witness: a handle configured before has been through a config with
\* pins 0, 1 and 8 (ports differ between the first and the last), which
\* returned 2.
C11_Witness ==
    /\ platform = "ARDUINO_AVR" /\ call.op = "config"
    /\ call.cfg.pins = <<0, 1, 8>> /\ call.ret = 2
    /\ dev[call.h].init /\ PinMsk(dev[call.h]) = 34

\* m holds each of 0, 1, 2 once.
IsPerm(m) == Len(m) = 3 /\ \A v \in 0..2 : Cardinality({j \in 1..3 : m[j] = v}) = 1

\* The map that applies n and then m: position j takes channel m[n[j]].
Compose(m, n) == [j \in 1..3 |-> m[n[j] + 1]]

\* C12: the colour map a successful config with one of the six orders
\* leaves in the handle is a permutation of {0,1,2}, differs from the map of
\* each of the five other orders, is the identity for rgb and the reversal
\* for bgr, and for these two composes with itself to the identity.
C12_RgbmapPermutations ==
    (call.op = "config" /\ call.ret = 0 /\ call.cfg.order \in Orders) =>
        LET m == dev[call.h].rgbmap
            o == call.cfg.order
        IN  /\ IsPerm(m)
            /\ \A o2 \in Orders \ {o} : _ws2812_get_rgbmap(o2) # m
            /\ Cardinality({_ws2812_get_rgbmap(o2) : o2 \in Orders}) = 6
            /\ o = rgb => (m = <<0, 1, 2>> /\ Compose(m, m) = <<0, 1, 2>>)
            /\ o = bgr => (m = <<2, 1, 0>> /\ Compose(m, m) = <<0, 1, 2>>)

\* C12 witness: a config with order bgr has left the reversal in the handle.
C12_Witness ==
    /\ call.op = "config" /\ call.ret = 0 /\ call.cfg.order = bgr
    /\ dev[call.h].rgbmap = <<2, 1, 0>>

\* C13: the session flag is Idle at program start; only a prepare sets it
\* and only a close clears it, whichever handle they are called with; a
\* config, a tx or a wait_rst leaves it alone; every prepare returns with
\* the session Prepared and every close with the session Idle, so that one
\* close ends a bracket two handles have prepared, and a close in Idle
\* changes nothing.
C13_OneSessionFlag ==
    /\ ~_prep
    /\ [][/\ (_prep' /\ ~_prep) => call'.op = "prep_tx"
          /\ (~_prep' /\ _prep) => call'.op = "close_tx"
          /\ call'.op \in {"config", "tx", "wait_rst"} => _prep' = _prep
          /\ call'.op = "prep_tx" => _prep'
          /\ call'.op = "close_tx" => ~_prep'
          /\ (call'.op = "close_tx" /\ ~_prep) => (mach' = mach /\ ev' = <<>>)]_vars

\* C13 witness: A opened the bracket, B called prepare in it, and one close
\* with B has returned the session to Idle after its reset wait.
C13_Witness ==
    /\ call.op = "close_tx" /\ call.h = "B" /\ ~_prep
    /\ open.h = "A" /\ open.again = {"B"}
    /\ \E i \in 1..Len(ev) : ev[i] = Rst(80)

\* C14: a prepare, tx, wait_rst or close, called on either handle in any
\* session state, leaves every field of every device handle as config wrote
\* it: register reference, set mask, clear mask, reset time, colour map.
C14_HandleReadOnly ==
    [][call'.op \in {"prep_tx", "tx", "wait_rst", "close_tx"} => dev' = dev]_vars

\* C14 witness: both handles configured, a bracket has been closed with B,
\* and B still holds what config wrote.
C14_Witness ==
    /\ call.op = "close_tx" /\ call.h = "B" /\ ~_prep /\ ev # <<>>
    /\ dev["A"].init /\ dev["B"].init
    /\ dev["B"].rst_time_us = 80 /\ dev["B"].rgbmap = <<1, 0, 2>> /\ PinMsk(dev["B"]) = 2

\* C15: a wait_rst, in Idle or Prepared and with interrupts enabled or
\* disabled at entry, returns with the interrupt-enable flag as it was at
\* entry and with the session flag and the snapshot unchanged.
C15_WaitRstKeepsInterrupts ==
    [][call'.op = "wait_rst" =>
         (I_flag' = I_flag /\ _prep' = _prep /\ _sreg_prev' = _sreg_prev)]_vars

\* The interrupt-enable flag after the events evs, from the value i0.
RECURSIVE IAfter(_, _)
IAfter(evs, i0) ==
    IF evs = <<>> THEN i0
    ELSE LET e == evs[Len(evs)] IN
         CASE e.k = "sei"  -> TRUE
           [] e.k = "cli"  -> FALSE
           [] e.k = "sreg" -> e.val = 1
           [] OTHER        -> IAfter(SubSeq(evs, 1, Len(evs) - 1), i0)

\* The session flag after the events evs, from the value p0.
RECURSIVE PrepAfter(_, _)
PrepAfter(evs, p0) ==
    IF evs = <<>> THEN p0
    ELSE LET e == evs[Len(evs)] IN
         IF e.k = "prep" THEN e.val = 1 ELSE PrepAfter(SubSeq(evs, 1, Len(evs) - 1), p0)

\* Index of the first busy wait among evs (0 when there is none).
FirstRst(evs) ==
    IF \E i \in 1..Len(evs) : evs[i].k = "rst"
    THEN CHOOSE i \in 1..Len(evs) : evs[i].k = "rst" /\ \A j \in 1..(i - 1) : evs[j].k # "rst"
    ELSE 0

\* The events of a call that come before its reset wait begins: before the
\* busy wait, and before the interrupt disable delay_us opens it with.
BeforeWait(evs) ==
    LET r == FirstRst(evs) IN
    IF r = 0 THEN evs
    ELSE IF r > 1 /\ evs[r - 1].k = "cli" THEN SubSeq(evs, 1, r - 2)
    ELSE SubSeq(evs, 1, r - 1)

\* C16: when a close ends a bracket, then at the moment its reset wait
\* begins the interrupt-enable flag has the value it had before the prepare
\* that opened the bracket and the session flag is Idle; the session is Idle
\* when close returns; and the wait lasts the reset time of the handle given
\* to close.
C16_CloseRestoresThenWaits ==
    [][(call'.op = "close_tx" /\ _prep) =>
         /\ FirstRst(ev') # 0
         /\ IAfter(BeforeWait(ev'), I_flag) = open.I
         /\ ~PrepAfter(BeforeWait(ev'), _prep)
         /\ ~_prep'
         /\ ev'[FirstRst(ev')].val = dev[call'.h].rst_time_us]_vars

\* The bit positions set in a byte.
Bits(v) == {b \in 0..7 : (v \div (2 ^ b)) % 2 = 1}

\* The bit positions of the configured pins: the pin numbers on bare AVR,
\* the bits of the pins' masks on Arduino and STM8S.
PinBitSet(plat, pins) ==
    CASE plat = "AVR"         -> {pins[i] : i \in 1..Len(pins)}
      [] plat = "ARDUINO_AVR" -> UNION {Bits(digitalPinToBitMask(pins[i])) : i \in 1..Len(pins)}
      [] plat = "STM8S"       -> UNION {Bits(pins[i]) : i \in 1..Len(pins)}

\* C17: after a successful config with pin mask M, made while the output
\* register held P, the handle holds maskhi = P | M and masklo = P & ~M on
\* the AVR targets (bits outside M as in P, bits of M set in maskhi and
\* clear in masklo) and maskhi = M, masklo = ~M on STM8S.
C17_MaskFormulas ==
    [][(call'.op = "config" /\ call'.ret = 0) =>
         LET d == dev'[call'.h]
             MB == PinBitSet(platform, call'.cfg.pins)
             PB == Bits(PORT[d.port])
         IN  IF platform = "STM8S"
             THEN Bits(d.maskhi) = MB /\ Bits(d.masklo) = (0..7) \ MB
             ELSE Bits(d.maskhi) = PB \cup MB /\ Bits(d.masklo) = PB \ MB]_vars

\* C17 witness: bare AVR, register at 0x04, pins 0, 1 and 7: maskhi is 0x87
\* and masklo 0x04.
C17_Witness ==
    /\ platform = "AVR" /\ call.op = "config" /\ call.ret = 0
    /\ call.cfg.pins = <<0, 1, 7>> /\ PORT[dev[call.h].port] = 4
    /\ dev[call.h].maskhi = 135 /\ dev[call.h].masklo = 4

\* C18: on STM8S a tx on a handle that has called prepare in the open
\* bracket, whether its prepare opened the bracket or came second, stores to
\* the handle's own port only, raising exactly the pins of its set mask and
\* lowering them with its clear mask.
C18_TxDrivesOwnPins ==
    (/\ platform = "STM8S" /\ call.op = "tx" /\ _prep
     /\ call.h \in {open.h} \cup open.again) =>
        LET d == dev[call.h] IN
        /\ ev # <<>>
        /\ \A k \in 1..(Len(ev) \div 2) :
             LET r == ev[2 * k - 1]
                 f == ev[2 * k]
             IN  /\ r.port = d.port /\ f.port = d.port
                 /\ BitAnd(r.val, d.maskhi) = d.maskhi
                 /\ f.val = BitAnd(r.val, d.masklo)

\* C19: on bare AVR a successful config leaves every bit of the
\* data-direction register outside the pin mask as it was and sets every
\* bit inside it.
C19_DdrOtherBitsKept ==
    [][(platform = "AVR" /\ call'.op = "config" /\ call'.ret = 0) =>
         LET p == dev'[call'.h].port
             MB == PinBitSet(platform, call'.cfg.pins)
         IN  /\ Bits(DDR'[p]) \ MB = Bits(DDR[p]) \ MB
             /\ MB \subseteq Bits(DDR'[p])]_vars

\* C20: a config that returns a non-zero code has changed nothing: not the
\* handle, not a data-direction register (no pin switched to output), not
\* an output register.
C20_FailedConfigChangesNothing ==
    [][(call'.op = "config" /\ call'.ret # 0) =>
         (dev' = dev /\ DDR' = DDR /\ PORT' = PORT)]_vars

\* C21: the colour map of every configured handle is a permutation of
\* {0,1,2}, whatever the order field held (a value that is no enumerator
\* gives the identity); so a tx of one triple puts exactly three bytes on
\* the wire, each channel of the triple once.
C21_RgbmapAlwaysPermutation ==
    /\ \A h \in Handles : dev[h].init => IsPerm(dev[h].rgbmap)
    /\ (call.op = "config" /\ call.ret = 0 /\ call.cfg.order \notin Orders) =>
           dev[call.h].rgbmap = <<0, 1, 2>>
    /\ (call.op = "tx" /\ Aimed /\ PinMsk(dev[call.h]) # 0) =>
           /\ Len(LastWire) = 3
           /\ \A c \in 1..3 :
                Cardinality({j \in 1..3 : LastWire[j] = ByteItem(call.pxls[1][c])}) = 1

\* C21 witness: a handle holding the identity map, from order rgb or from a
\* value that is no enumerator, has sent (10,20,30) as 10, 20, 30.
C21_Witness ==
    /\ call.op = "tx" /\ Aimed /\ call.pxls = <<<<10, 20, 30>>>>
    /\ dev[call.h].rgbmap = <<0, 1, 2>> /\ dev[call.h].rst_time_us = 50
    /\ LastWire = <<ByteItem(10), ByteItem(20), ByteItem(30)>>

\* What a tx on handle d with pixels pxls puts on d's strip when it is
\* called in a bracket that a prepare on d opened.
InBracketWire(d, port, pxls) ==
    Wire(ws2812_tx(platform, d, [odr |-> d.port, hi |-> d.maskhi, lo |-> d.masklo], port, pxls).ev,
         d.port, PinMsk(d))

\* C22: a tx leaves the session flag, the snapshot and the interrupt-enable
\* flag as it found them, and called in Idle on a handle that drives a pin
\* it puts on the strip the bytes it puts there for the same handle and
\* pixels in a bracket.
C22_TxIgnoresSession ==
    [][call'.op = "tx" =>
         /\ _prep' = _prep /\ _sreg_prev' = _sreg_prev /\ I_flag' = I_flag
         /\ (~_prep /\ PinMsk(dev[call'.h]) # 0) =>
              Wire(ev', dev[call'.h].port, PinMsk(dev[call'.h]))
                  = InBracketWire(dev[call'.h], PORT, call'.pxls)]_vars


\* C23: every library call comes back.  ws2812_tx returns after exactly
\* the 24 * n bit encodings of its n pixels (two stores to the port
\* register each), and with n = 0 it emits nothing and writes no register;
\* the busy wait of ws2812_wait_rst and of ws2812_close_tx, once entered,
\* always runs out and the call returns to the application, for every
\* reset time of the uint8_t range sampled at 0, 1, 50 and 255.
C23_CallsTerminate ==
    /\ [][call'.op = "tx" =>
            /\ Len(ev') = 2 * 24 * Len(call'.pxls)
            /\ \A i \in 1..Len(ev') : ev'[i].k = "st"
            /\ call'.pxls = <<>> => PORT' = PORT]_vars
    /\ (pc = "delay" ~> pc = "app")

\* A close on STM8S with reset time 0 has come back from its wait.
C23_Witness ==
    /\ platform = "STM8S" /\ dev["A"].init /\ dev["A"].rst_time_us = 0
    /\ call.op = "close_tx" /\ pc = "app"
    /\ Len(ev) > 0 /\ ev[Len(ev)] = Sei
    /\ \E i \in 1..Len(ev) : ev[i] = Rst(0)

\* C24: on STM8S the 16-bit counter that delay_us loads for a reset time
\* us of the uint8_t range is us * LOOPS_PER_US - LDW_OVERHEAD without a
\* wrap modulo 2^16, so a longer reset time never loads a smaller counter
\* and the reset time 0 loads the smallest one.
C24_CounterNoWrap ==
    [][(platform = "STM8S" /\ pc = "app" /\ pc' = "delay") =>
         LET us == dev[call'.h].rst_time_us IN
         /\ ctr' = us * LOOPS_PER_US - LDW_OVERHEAD
         /\ \A longer \in 0..255 : us <= longer => ctr' <= DelayStart("STM8S", longer)]_vars

\* Length in ns, rounded down, of c cycles at the clock f.
Ns(c, f) == (c * 1000000) \div (f \div 1000)

\* C25: on AVR the preprocessor refuses the build exactly when the high
\* pulse of a 0 bit that the assembled loop produces, the emitted padding
\* plus the three fixed cycles, is longer than 550 ns, for every F_CPU of
\* 1 to 20 MHz; on STM8S it refuses every F_CPU other than 16 MHz.
C25_BuildRefusedExactly ==
    IF platform = "STM8S"
    THEN BuildError(platform, F_CPU, F_CPU_u) <=> F_CPU # 16 * 1000000
    ELSE BuildError(platform, F_CPU, F_CPU_u)
             <=> Ns(HighCycles(platform, "fall_early", F_CPU, F_CPU_u), F_CPU) > 550

\* The stores of the last call that lower the line.
Falls == {i \in 1..Len(ev) : ev[i].k = "st" /\ ev[i].at \in {"fall_early", "fall_late"}}

\* C26: the cycles spent on one bit do not depend on its value: in every
\* transmission the 0 bits and the 1 bits take the same number of cycles,
\* on the AVR loop and in the two STM8S routines.
C26_BitCyclesEqual ==
    (call.op = "tx") =>
        \A i, j \in Falls :
            BitCycles(platform, ev[i].at, F_CPU, F_CPU_u) = BitCycles(platform, ev[j].at, F_CPU, F_CPU_u)

\* C27: on AVR, in a build for 6, 8, 12, 16 or 20 MHz that transmits, the
\* padded loop length w_fixedtotal + w1_nops + w2_nops + w3_nops is
\* w_totalcycles and each padding count is in 0..31.
C27_PaddedLoopIsPeriod ==
    (platform # "STM8S" /\ call.op = "tx" /\ call.pxls # <<>> /\ F_CPU \in {6000000, 8000000, 12000000, 16000000, 20000000}) =>
        /\ w_fixedtotal + w1_nops(F_CPU, F_CPU_u) + w2_nops(F_CPU, F_CPU_u) + w3_nops(F_CPU, F_CPU_u)
               = w_totalcycles(F_CPU)
        /\ {w1_nops(F_CPU, F_CPU_u), w2_nops(F_CPU, F_CPU_u), w3_nops(F_CPU, F_CPU_u)} \subseteq 0..31

\* C28: at 16 MHz, on AVR and on STM8S, every bit of a transmission holds
\* the line high for 550 to 850 ns when it is a 1 and for 200 to 500 ns
\* when it is a 0, measured from the store that raises the line to the
\* store that lowers it.
C28_HighTimesInTolerance ==
    (call.op = "tx" /\ F_CPU = 16000000) =>
        \A i \in Falls :
            LET c == HighCycles(platform, ev[i].at, F_CPU, F_CPU_u) * 1000000
                k == F_CPU \div 1000
            IN  IF ev[i].at = "fall_late" THEN 550 * k <= c /\ c <= 850 * k
                ELSE 200 * k <= c /\ c <= 500 * k
====
